---- MODULE Spec2Model ----
(***************************************************************************)
(* django-structured-field: the cache engine (structured/cache/engine.py)  *)
(* and the relation field types (structured/pydantic/fields.py).           *)
(*                                                                         *)
(* Python values are tagged records:                                       *)
(*   None            [t |-> "none"]                                        *)
(*   int n           [t |-> "int", n |-> n]                                *)
(*   str             [t |-> "str", s |-> <<digit, ...>>]                   *)
(*   dict            [t |-> "dict", f |-> [key |-> value]]                 *)
(*   list            [t |-> "list", items |-> <<value, ...>>]              *)
(*   model instance  [t |-> "ent", model |-> class, pk |-> n]              *)
(*   ValueWithCache  [t |-> "vwc", cache, model, value, pass]              *)
(*   BaseModel       [t |-> "inst", type, f, set]                          *)
(*   QuerySet        [t |-> "qs", model, items]                            *)
(*   raised error    [t |-> "raise", exc]                                  *)
(***************************************************************************)
EXTENDS Integers, Sequences, FiniteSets, TLC

VARIABLES
    cfg,      \* the two settings: [enabled, shared]
    caches,   \* cache id -> Cache; id 0 is the ThreadSafeCache singleton
    raw,      \* the raw input as the host handed it in (never written)
    data,     \* the data tree build_cache works on (substituted in place)
    pre,      \* the data tree as it was when the last build_cache started
    cpre,     \* the shared cache as it was when the last build_cache started
    fkd,      \* fk_data collected by the last build_cache
    calls,    \* the batch fetches of the last build_cache, in order
    npass,    \* build_cache passes run so far
    nedit,    \* host writes into the data tree so far
    flushed,  \* a flush ran since the last build_cache
    inst,     \* the typed object handed to fetch_cache
    res,      \* outcome of the last build_cache / retrieve / fetch_cache
    thr,      \* per thread: the locals of a concurrent build_cache
    cls_instance, \* ThreadSafeCache._instance: a cache id, or NoInstance
    cls_lock, \* ThreadSafeCache._lock: the thread holding it, or Free
    stack     \* the active calls of get_all_fk_data, outermost first

vars == <<cfg, caches, raw, data, pre, cpre, fkd, calls, npass, nedit,
          flushed, inst, res, thr, cls_instance, cls_lock, stack>>

(***************************************************************************)
(* Bounds of the model.                                                    *)
(***************************************************************************)
MaxLeaves == 2
MaxChildren == 1
MaxPasses == 2
MaxEdits == 1
NumThreads == 2
MaxConstructs == 2
MaxNest == 2
MaxStack == 6

(***************************************************************************)
(* Python values.                                                          *)
(***************************************************************************)
None == [t |-> "none"]
I(n) == [t |-> "int", n |-> n]
S(s) == [t |-> "str", s |-> s]
Dict(f) == [t |-> "dict", f |-> f]
List(xs) == [t |-> "list", items |-> xs]
Ent(m, pk) == [t |-> "ent", model |-> m, pk |-> pk]
QS(m, xs) == [t |-> "qs", model |-> m, items |-> xs]
Raise(e) == [t |-> "raise", exc |-> e]

Range(f) == {f[x] : x \in DOMAIN f}

\* Python truth value: None, 0, "", {} and [] are false.
Truthy(v) ==
    CASE v.t = "none" -> FALSE
      [] v.t = "int" -> v.n # 0
      [] v.t = "str" -> Len(v.s) > 0
      [] v.t = "dict" -> DOMAIN v.f # {}
      [] v.t = "list" -> Len(v.items) > 0
      [] OTHER -> TRUE

\* isinstance(v, Sequence): a list is one, and so is a str.
IsSequence(v) == v.t \in {"list", "str"}

\* The elements iterating a Sequence yields: a str yields its characters.
Elements(v) ==
    IF v.t = "list" THEN Range(v.items)
    ELSE {S(<<v.s[i]>>) : i \in DOMAIN v.s}

(***************************************************************************)
(* The persistence layer: entity classes with integer primary keys.        *)
(***************************************************************************)
Models == {"User", "Item"}
PkAttname == "id"
Existing == [User |-> {0, 1, 2, 12}, Item |-> {1, 2, 12}]

RECURSIVE StrToInt(_)
\* int("12") = 12: the field's get_prep_value on a lookup value.
StrToInt(s) ==
    IF Len(s) = 0 THEN 0
    ELSE 10 * StrToInt(SubSeq(s, 1, Len(s) - 1)) + s[Len(s)]

\* A value the integer primary key field can prepare for a lookup.
IsKey(v) == v.t \in {"int", "str"}

\* The primary key a lookup value (pk=..., pk__in=[...]) is coerced to.
Coerce(k) == IF k.t = "int" THEN k.n ELSE StrToInt(k.s)

\* An instance built for every requested key, existing or not.
FilterPkInUnchecked(m, pks) == {Ent(m, Coerce(k)) : k \in {x \in pks : IsKey(x)}}

\* model.objects.filter(pk__in=pks), evaluated: the existing rows, each once.
FilterPkIn(m, pks) ==
    {Ent(m, p) : p \in {Coerce(k) : k \in {x \in pks : IsKey(x)}} \cap Existing[m]}

\* A string of decimal digits; a character above 9 stands for a character
\* that is no digit.
IsNumeric(k) == Len(k.s) > 0 /\ \A i \in DOMAIN k.s : k.s[i] \in 0..9

\* The query raises on a value that is no key (TypeError) and on a string
\* that int() does not accept (ValueError).
BadLookup(pks) == \E k \in pks : ~IsKey(k) \/ (k.t = "str" /\ ~IsNumeric(k))

QueryError(pks) ==
    IF \E k \in pks : ~IsKey(k) THEN Raise("TypeError") ELSE Raise("ValueError")

\* model._default_manager.get(pk=k): the row, or DoesNotExist.
GetByPk(m, k) ==
    IF Coerce(k) \in Existing[m] THEN Ent(m, Coerce(k)) ELSE Raise("DoesNotExist")

(***************************************************************************)
(* structured.utils.getter / setter: dotted paths, here sequences of       *)
(* segments; a list index is the decimal string of the index.              *)
(***************************************************************************)
IdxStr(i) == ToString(i)
StrIdx(s) == CHOOSE i \in 0..(MaxLeaves + MaxChildren + 2) : ToString(i) = s
IsIdx(s) == \E i \in 0..(MaxLeaves + MaxChildren + 2) : ToString(i) = s

\* One step of pointed_getter: mapping key, list index or attribute.
HasKey(obj, key) ==
    CASE obj.t = "dict" -> key \in DOMAIN obj.f
      [] obj.t = "inst" -> key \in DOMAIN obj.f
      [] obj.t = "list" -> IsIdx(key) /\ StrIdx(key) < Len(obj.items)
      [] obj.t = "ent" -> key = PkAttname
      [] OTHER -> FALSE

GetKey(obj, key) ==
    CASE obj.t = "dict" -> obj.f[key]
      [] obj.t = "inst" -> obj.f[key]
      [] obj.t = "list" -> obj.items[StrIdx(key) + 1]
      [] obj.t = "ent" -> I(obj.pk)

RECURSIVE pointed_getter(_, _, _)
pointed_getter(obj, path, default) ==
    IF Len(path) = 0 THEN obj
    ELSE IF ~HasKey(obj, Head(path)) THEN default
    ELSE pointed_getter(GetKey(obj, Head(path)), Tail(path), default)

RECURSIVE pointed_setter(_, _, _)
pointed_setter(obj, path, value) ==
    LET key == Head(path)
        new == IF Len(path) = 1 THEN value
               ELSE pointed_setter(GetKey(obj, key), Tail(path), value)
    IN CASE obj.t = "dict" ->
              [obj EXCEPT !.f = [k \in DOMAIN obj.f \cup {key} |->
                                    IF k = key THEN new ELSE obj.f[k]]]
         [] obj.t = "inst" ->
              [obj EXCEPT !.f = [k \in DOMAIN obj.f \cup {key} |->
                                    IF k = key THEN new ELSE obj.f[k]]]
         [] obj.t = "list" ->
              [obj EXCEPT !.items[StrIdx(key) + 1] = new]

(***************************************************************************)
(* The structured types of the model and their relation maps               *)
(* (CacheEngine.inspect_related_fields), in declaration order.             *)
(*   Root:  qs: QuerySet[User], fk: ForeignKey[Item],                      *)
(*          child: Optional[Child], children: List[Child]                  *)
(*   Child: fk: ForeignKey[User]                                           *)
(***************************************************************************)
FKField == "fk"
QSField == "qs"
RIField == "rel"
RLField == "rel_l"

RelInfo(name, model, type) == [name |-> name, model |-> model, type |-> type]

inspect_related_fields(type) ==
    IF type = "Root"
    THEN << RelInfo("qs", "User", QSField),
            RelInfo("fk", "Item", FKField),
            RelInfo("child", "Child", RIField),
            RelInfo("children", "Child", RLField) >>
    ELSE IF type = "Node"
    THEN << RelInfo("fk", "User", FKField),
            RelInfo("next", "Node", RIField) >>
    ELSE << RelInfo("fk", "User", FKField) >>

(***************************************************************************)
(* ValueWithCache.                                                         *)
(***************************************************************************)
ValueWithCache(cache, model, value, pass) ==
    [t |-> "vwc", cache |-> cache, model |-> model, value |-> value, pass |-> pass]

(***************************************************************************)
(* fk_data: a dict from entity class to a list of (path, key) tuples.      *)
(***************************************************************************)
EmptyFk == [m \in {} |-> <<>>]
Tuple(path, key) == [path |-> path, key |-> key]

FkGet(fk, m) == IF m \in DOMAIN fk THEN fk[m] ELSE <<>>

\* fk_data[model].append(tuple)
FkAppend(fk, m, tup) ==
    [x \in DOMAIN fk \cup {m} |-> IF x = m THEN Append(FkGet(fk, m), tup) ELSE fk[x]]

\* The child's tuples merged with their paths as they are, no prefix added.
FkMergeNoPrefix(fk, child, prefix) ==
    [x \in DOMAIN fk \cup DOMAIN child |-> FkGet(fk, x) \o FkGet(child, x)]

\* for model, touples in child.items(): fk_data[model] += [(prefix + path, key)]
FkMerge(fk, child, prefix) ==
    [x \in DOMAIN fk \cup DOMAIN child |->
        FkGet(fk, x) \o
        [i \in 1..Len(FkGet(child, x)) |->
            Tuple(prefix \o child[x][i].path, child[x][i].key)]]

RECURSIVE get_all_fk_data(_, _)
RECURSIVE get_fk_data(_, _)
RECURSIVE FieldLoop(_, _, _, _)
RECURSIVE SeqLoop(_, _, _, _, _)

\* The loop over a sequence's elements (lines 159-162 and 209-217): element
\* i's tuples are merged under prefix + <<i>>.
SeqLoop(type, items, i, prefix, acc) ==
    IF i > Len(items) THEN acc
    ELSE SeqLoop(type, items, i + 1, prefix,
                 FkMerge(acc, get_all_fk_data(type, items[i]),
                         prefix \o <<IdxStr(i - 1)>>))

get_all_fk_data(type, d) ==
    IF IsSequence(d)
    THEN SeqLoop(type, IF d.t = "list" THEN d.items
                       ELSE [i \in DOMAIN d.s |-> S(<<d.s[i]>>)], 1, <<>>, EmptyFk)
    ELSE get_fk_data(type, d)

\* The guard dropped: no value is taken for a Lazy Value.
NeverValueWithCache(v) == FALSE

\* isinstance(value, ValueWithCache): the test that breaks recursive builds.
IsValueWithCache(v) == v.t = "vwc"

\* The key of one reference: pointed_getter(value, pk.attname, value).
KeyOf(v) == pointed_getter(v, <<PkAttname>>, v)

\* The keys of a reference list: the falsy elements are left out.
RECURSIVE KeysOfList(_)
KeysOfList(xs) ==
    IF Len(xs) = 0 THEN <<>>
    ELSE (IF Truthy(Head(xs)) THEN <<KeyOf(Head(xs))>> ELSE <<>>) \o KeysOfList(Tail(xs))

\* The body of the loop over the relation map, from field i on; a
\* ValueWithCache in a reference field empties fk_data and leaves the loop.
FieldLoop(type, d, i, acc) ==
    LET fields == inspect_related_fields(type) IN
    IF i > Len(fields) THEN acc
    ELSE
      LET info == fields[i]
          name == info.name
      IN
      CASE info.type = FKField ->
             LET v0 == pointed_getter(d, <<name>>, None)
                 value == IF v0.t = "dict"
                          THEN (IF PkAttname \in DOMAIN v0.f THEN v0.f[PkAttname] ELSE None)
                          ELSE v0
             IN IF ~Truthy(value) THEN FieldLoop(type, d, i + 1, acc)
                ELSE IF IsValueWithCache(value) THEN EmptyFk
                ELSE FieldLoop(type, d, i + 1,
                               FkAppend(acc, info.model, Tuple(<<name>>, KeyOf(value))))
        [] info.type = QSField ->
             LET value == pointed_getter(d, <<name>>, List(<<>>))
             IN IF value.t # "list" THEN FieldLoop(type, d, i + 1, acc)
                ELSE IF \E j \in DOMAIN value.items : IsValueWithCache(value.items[j])
                THEN EmptyFk
                ELSE FieldLoop(type, d, i + 1,
                               FkAppend(acc, info.model,
                                        Tuple(<<name>>, List(KeysOfList(value.items)))))
        [] info.type = RLField ->
             LET values == pointed_getter(d, <<name>>, List(<<>>))
             IN IF values.t # "list" THEN FieldLoop(type, d, i + 1, acc)
                ELSE FieldLoop(type, d, i + 1,
                               SeqLoop(info.model, values.items, 1, <<name>>, acc))
        [] info.type = RIField ->
             LET value == pointed_getter(d, <<name>>, None)
             IN FieldLoop(type, d, i + 1,
                          FkMerge(acc, get_all_fk_data(info.model, value), <<name>>))

get_fk_data(type, d) ==
    IF ~Truthy(d) THEN EmptyFk ELSE FieldLoop(type, d, 1, EmptyFk)

(***************************************************************************)
(* Cache: a dict from entity class to a dict from primary key to entity.   *)
(***************************************************************************)
EmptyCache == [m \in {} |-> <<>>]
SharedId == 0

\* cache[model] = mapping
CacheSet(cache, m, mapping) ==
    [x \in DOMAIN cache \cup {m} |-> IF x = m THEN mapping ELSE cache[x]]

\* Cache.flush(model): model is None, a class, or the name of a class. A
\* name is looked up among the keys and replaced by the matching NAME, which
\* is then tested against the keys (classes).
FlushNone == [kind |-> "none"]
FlushClass(m) == [kind |-> "class", name |-> m]
FlushName(n) == [kind |-> "name", name |-> n]

\* Every flush clears the whole cache.
flush_all(cache, model) == EmptyCache

flush(cache, model) ==
    CASE model.kind = "none" -> EmptyCache
      [] model.kind = "class" ->
           [x \in DOMAIN cache \ {model.name} |-> cache[x]]
      [] model.kind = "name" -> cache

(***************************************************************************)
(* CacheEngine.build_cache.                                                *)
(***************************************************************************)
\* Lines 229-235: the keys of a tuple go into the class's set; update() for
\* a Sequence key, add() for any other.
PlainKeys(key) == IF IsSequence(key) THEN Elements(key) ELSE {key}

plainset(fk) ==
    [m \in DOMAIN fk |-> UNION {PlainKeys(fk[m][i].key) : i \in DOMAIN fk[m]}]

\* The class's cached entities are not read: models starts empty.
ReadModelsFresh(cache, m) == {}

\* Line 241: list(cache.get(model, {}).values())
ReadModels(cache, m) == IF m \in DOMAIN cache THEN Range(cache[m]) ELSE {}

IsInstanceOf(v, m) == v.t = "ent" /\ v.model = m

\* Python's ==, between a raw key and a stored primary key (an int).
PyEq(k, pk) == k.t = "int" /\ k.n = pk

\* Lines 242-249: the instances among the values join models, the other
\* values not equal to the pk of one of models are the pks to fetch.
WithInstances(models, values, m) == models \cup {v \in values : IsInstanceOf(v, m)}

PksToFetch(models, values, m) ==
    {v \in values : /\ ~IsInstanceOf(v, m)
                    /\ \A e \in WithInstances(models, values, m) : ~PyEq(v, e.pk)}

\* Lines 250-251: one query, when there is a pk to fetch.
FetchModels(models, values, m) ==
    LET pks == PksToFetch(models, values, m)
    IN WithInstances(models, values, m)
         \cup (IF pks # {} THEN FilterPkIn(m, pks) ELSE {})

FetchCalls(models, values, m) ==
    LET pks == PksToFetch(models, values, m)
    IN IF pks # {} THEN <<[model |-> m, pks |-> pks]>> ELSE <<>>

\* Line 252: {obj.pk: obj for obj in models}
StoreMapping(models) ==
    [p \in {e.pk : e \in models} |-> CHOOSE e \in models : e.pk = p]

\* The classes of a dict, in the order the loops visit them.
RECURSIVE SetToSeq(_)
SetToSeq(s) ==
    IF s = {} THEN <<>>
    ELSE LET x == CHOOSE y \in s : TRUE IN <<x>> \o SetToSeq(s \ {x})

\* The class's mapping is emptied before the query is made.
ClearedBeforeFetch(cache, m) == CacheSet(cache, m, <<>>)

\* Line 251 raises before line 252 assigns: the cache is as the loop left it
\* after the classes before this one.
AfterFailedFetch(cache, m) == cache

\* Lines 240-252: the loop over plainset, from class i of order on. A query
\* that raises ends the pass before the class's mapping is stored.
RECURSIVE CacheLoop(_, _, _, _, _)
CacheLoop(ps, order, i, cache, log) ==
    IF i > Len(order) THEN [cache |-> cache, calls |-> log, exc |-> None]
    ELSE LET m == order[i]
             models == ReadModels(cache, m)
         IN IF BadLookup(PksToFetch(models, ps[m], m))
            THEN [cache |-> AfterFailedFetch(cache, m),
                  calls |-> log \o FetchCalls(models, ps[m], m),
                  exc |-> QueryError(PksToFetch(models, ps[m], m))]
            ELSE CacheLoop(ps, order, i + 1,
                           CacheSet(cache, m, StoreMapping(FetchModels(models, ps[m], m))),
                           log \o FetchCalls(models, ps[m], m))

\* Lines 254-256: a ValueWithCache is written at the path of every tuple.
RECURSIVE SubstTuples(_, _, _, _, _, _)
SubstTuples(d, tuples, i, cid, m, pass) ==
    IF i > Len(tuples) THEN d
    ELSE SubstTuples(pointed_setter(d, tuples[i].path,
                                    ValueWithCache(cid, m, tuples[i].key, pass)),
                     tuples, i + 1, cid, m, pass)

RECURSIVE SubstLoop(_, _, _, _, _, _)
SubstLoop(d, fk, order, i, cid, pass) ==
    IF i > Len(order) THEN d
    ELSE SubstLoop(SubstTuples(d, fk[order[i]], 1, cid, order[i], pass),
                   fk, order, i + 1, cid, pass)

\* The flag ignored: the cache is always built.
AlwaysEnabled(conf) == TRUE

\* Line 226: STRUCTURED_FIELD_CACHE_ENABLED
CacheEnabled(conf) == conf.enabled

\* build_cache(data) of the engine of `type`, as pass number `pass`: the
\* data returned, the caches after it, what it collected and fetched, and
\* the error it raised, if any.
build_cache(type, d, conf, cs, pass) ==
    IF ~CacheEnabled(conf)
    THEN [data |-> d, caches |-> cs, fk |-> EmptyFk, calls |-> <<>>, exc |-> None]
    ELSE
      LET fk == get_all_fk_data(type, d)
          ps == plainset(fk)
          cid == IF conf.shared THEN SharedId ELSE pass
          cache == IF conf.shared THEN cs[SharedId] ELSE EmptyCache
          order == SetToSeq(DOMAIN ps)
          loop == CacheLoop(ps, order, 1, cache, <<>>)
      IN [data |-> IF loop.exc.t = "raise" THEN d
                   ELSE SubstLoop(d, fk, order, 1, cid, pass),
          caches |-> [c \in DOMAIN cs \cup {cid} |->
                         IF c = cid THEN loop.cache ELSE cs[c]],
          fk |-> fk,
          calls |-> loop.calls,
          exc |-> loop.exc]

(***************************************************************************)
(* ValueWithCache.retrieve: the value returned (or the error raised) and   *)
(* the queries it ran.                                                     *)
(***************************************************************************)
\* `i in cache` and cache[i] on a dict keyed by int primary keys.
InMapping(k, mapping) == \E p \in DOMAIN mapping : PyEq(k, p)
MappingAt(k, mapping) == mapping[CHOOSE p \in DOMAIN mapping : PyEq(k, p)]

\* [cache[i] for i in value if i in cache]
RECURSIVE CachedOf(_, _)
CachedOf(keys, mapping) ==
    IF Len(keys) = 0 THEN <<>>
    ELSE (IF InMapping(Head(keys), mapping)
          THEN <<MappingAt(Head(keys), mapping)>> ELSE <<>>)
         \o CachedOf(Tail(keys), mapping)

Outcome(val, queries) == [val |-> val, queries |-> queries]

retrieve(v, cs) ==
    LET has == v.model \in DOMAIN cs[v.cache]
        cache == cs[v.cache][v.model]
    IN IF v.value.t = "list"
       THEN Outcome(QS(v.model,
                       IF ~has \/ DOMAIN cache = {} THEN <<>>
                       ELSE CachedOf(v.value.items, cache)),
                    <<>>)
       ELSE IF ~has THEN Outcome(Raise("AttributeError"), <<>>)
       ELSE IF InMapping(v.value, cache)
            THEN Outcome(MappingAt(v.value, cache), <<>>)
            ELSE Outcome(GetByPk(v.model, v.value),
                         <<[model |-> v.model, pks |-> {v.value}]>>)

(***************************************************************************)
(* The relation field types' direct fetch (structured/pydantic/fields.py). *)
(***************************************************************************)
\* ForeignKey: validate_from_pk
validate_from_pk(m, pk) == GetByPk(m, pk)

\* QuerySet: validate_from_pk_list: filter(pk__in=values) ordered by the
\* position of the first When that matches the row.
RECURSIVE OrderedRows(_, _, _)
OrderedRows(m, values, seen) ==
    IF Len(values) = 0 THEN <<>>
    ELSE LET p == Coerce(Head(values))
         IN (IF p \in Existing[m] /\ p \notin seen THEN <<Ent(m, p)>> ELSE <<>>)
            \o OrderedRows(m, Tail(values), seen \cup {p})

validate_from_pk_list(m, values) == QS(m, OrderedRows(m, values, {}))

IsPkDict(v) == v.t = "dict" /\ PkAttname \in DOMAIN v.f /\ IsKey(v.f[PkAttname])

\* The python_schema union of a relation field on a raw value: an instance
\* passes, a key goes to from_pk, a mapping to from_dict.
DirectFetch(m, v) ==
    CASE v.t = "ent" -> v
      [] IsKey(v) -> validate_from_pk(m, v)
      [] IsPkDict(v) -> validate_from_pk(m, v.f[PkAttname])
      [] v.t = "list" /\ \A i \in DOMAIN v.items : IsKey(v.items[i]) ->
           validate_from_pk_list(m, v.items)
      [] v.t = "list" /\ \A i \in DOMAIN v.items : IsPkDict(v.items[i]) ->
           validate_from_pk_list(m, [i \in DOMAIN v.items |-> v.items[i].f[PkAttname]])
      [] OTHER -> Raise("ValidationError")

(***************************************************************************)
(* Typed objects, and CacheEngine.fetch_cache.                             *)
(***************************************************************************)
Inst(type, f, set) == [t |-> "inst", type |-> type, f |-> f, set |-> set]

FieldNames(type) ==
    {inspect_related_fields(type)[i].name : i \in DOMAIN inspect_related_fields(type)}

InfoOf(type, name) ==
    LET fs == inspect_related_fields(type)
    IN fs[CHOOSE i \in DOMAIN fs : fs[i].name = name]

\* A typed object handed to fetch_cache that was built from a (substituted)
\* mapping without validating the values: the mapping's values are its
\* field values, the fields given are its model_fields_set, the others are
\* None; nested mappings are typed objects of the field's structured type.
RECURSIVE TypedObject(_, _)
TypedObject(type, d) ==
    IF d.t # "dict" THEN d
    ELSE
      Inst(type,
           [name \in FieldNames(type) |->
               IF name \notin DOMAIN d.f THEN None
               ELSE LET info == InfoOf(type, name)
                        v == d.f[name]
                    IN CASE info.type = RIField -> TypedObject(info.model, v)
                         [] info.type = RLField /\ v.t = "list" ->
                              List([i \in DOMAIN v.items |-> TypedObject(info.model, v.items[i])])
                         [] OTHER -> v],
           DOMAIN d.f \cap FieldNames(type))

FetchResult(obj, exc, queries) == [inst |-> obj, exc |-> exc, queries |-> queries]

SetAttr(obj, name, value) == [obj EXCEPT !.f[name] = value]

RECURSIVE fetch_cache(_, _, _)
RECURSIVE FetchLoop(_, _, _, _, _)

\* The loop over model_fields_set, visited in `order`, from position i on;
\* an error raised by retrieve leaves the loop with the fields set so far.
FetchLoop(obj, order, i, cs, queries) ==
    IF i > Len(order) THEN FetchResult(obj, None, queries)
    ELSE
      LET name == order[i]
          val == IF name \in DOMAIN obj.f THEN obj.f[name] ELSE None
      IN CASE val.t = "vwc" ->
                LET r == retrieve(val, cs)
                IN IF r.val.t = "raise"
                   THEN FetchResult(obj, r.val, queries \o r.queries)
                   ELSE FetchLoop(SetAttr(obj, name, r.val), order, i + 1, cs,
                                  queries \o r.queries)
           [] val.t = "inst" ->
                LET r == fetch_cache(val, SetToSeq(val.set), cs)
                IN IF r.exc.t = "raise"
                   THEN FetchResult(SetAttr(obj, name, r.inst), r.exc,
                                    queries \o r.queries)
                   ELSE FetchLoop(SetAttr(obj, name, r.inst), order, i + 1, cs,
                                  queries \o r.queries)
           [] OTHER -> FetchLoop(obj, order, i + 1, cs, queries)

fetch_cache(obj, order, cs) == FetchLoop(obj, order, 1, cs, <<>>)

(***************************************************************************)
(* Where the Lazy Values of a tree or typed object are.                    *)
(***************************************************************************)
RECURSIVE PathsOf(_)
\* Every path of a value: the empty path, and each key or index followed by
\* a path of what is there.
PathsOf(v) ==
    {<<>>} \cup
    CASE v.t \in {"dict", "inst"} ->
           UNION {{<<k>> \o p : p \in PathsOf(v.f[k])} : k \in DOMAIN v.f}
      [] v.t = "list" ->
           UNION {{<<IdxStr(i - 1)>> \o p : p \in PathsOf(v.items[i])} : i \in DOMAIN v.items}
      [] OTHER -> {}

At(v, path) == pointed_getter(v, path, None)

LazyPaths(v) == {p \in PathsOf(v) : At(v, p).t = "vwc"}

(***************************************************************************)
(* The raw inputs: mappings of the Root type with at most MaxLeaves        *)
(* references.                                                             *)
(***************************************************************************)
Absent == [t |-> "absent"]

SeqsUpTo(set, n) == UNION {[1..k -> set] : k \in 0..n}

PkDict(k) == Dict([id |-> k])

QsElems == {I(0), I(1), PkDict(I(2)), I(3), S(<<1>>)}
FkVals == {I(0), I(1), I(3), S(<<1, 2>>), PkDict(I(2))}
ChildFkVals == {I(1), S(<<1, 2>>)}

QsVals == {Absent} \cup {List(xs) : xs \in SeqsUpTo(QsElems, MaxLeaves)}
ChildNodes == {Dict([fk |-> v]) : v \in ChildFkVals}
ChildVals == {Absent, None} \cup ChildNodes
ChildrenVals ==
    {Absent} \cup {List(xs) : xs \in SeqsUpTo(ChildNodes, MaxChildren) \ {<<>>}}

MkRoot(q, f, c, cs) ==
    LET all == [qs |-> q, fk |-> f, child |-> c, children |-> cs]
    IN Dict([k \in {x \in DOMAIN all : all[x] # Absent} |-> all[k]])

Leaves(q, f, c, cs) ==
      (IF q = Absent THEN 0 ELSE Len(q.items))
    + (IF f = Absent THEN 0 ELSE 1)
    + (IF c \in ChildNodes THEN 1 ELSE 0)
    + (IF cs = Absent THEN 0 ELSE Len(cs.items))

Inputs ==
    {MkRoot(x[1], x[2], x[3], x[4]) :
        x \in {y \in QsVals \X ({Absent} \cup FkVals) \X ChildVals \X ChildrenVals :
                  Leaves(y[1], y[2], y[3], y[4]) <= MaxLeaves}}

(***************************************************************************)
(* The pipeline on one input: build_cache (possibly again, on the          *)
(* substituted tree), the host writing into the tree or flushing the       *)
(* shared cache, resolution of single Lazy Values, typed objects,          *)
(* and fetch_cache.                                                        *)
(***************************************************************************)
Configs == {[enabled |-> TRUE, shared |-> FALSE],
            [enabled |-> TRUE, shared |-> TRUE],
            [enabled |-> FALSE, shared |-> FALSE]}

NoThreads == <<>>
NoCalls == <<>>

\* ThreadSafeCache._instance = None (line 59) and the lock not held.
NoInstance == -1
Free == 0

\* The singleton was constructed before: it is the cache with id SharedId.
Constructed == cls_instance = SharedId /\ cls_lock = Free
NoRes == [op |-> "none"]

InitWith(inputs, configs) ==
    /\ cfg \in configs
    /\ caches = [c \in {SharedId} |-> EmptyCache]
    /\ raw \in inputs
    /\ data = raw
    /\ pre = raw
    /\ cpre = EmptyCache
    /\ fkd = EmptyFk
    /\ calls = <<>>
    /\ npass = 0
    /\ nedit = 0
    /\ flushed = FALSE
    /\ inst = None
    /\ res = NoRes

Init == InitWith(Inputs, Configs) /\ thr = NoThreads /\ Constructed /\ stack = NoCalls

\* CacheEnabledModel.build_cache, line 35: one build_cache pass over data.
BuildCache ==
    /\ npass < MaxPasses
    /\ inst = None
    /\ LET b == build_cache("Root", data, cfg, caches, npass + 1)
       IN /\ data' = b.data
          /\ caches' = b.caches
          /\ fkd' = b.fk
          /\ calls' = b.calls
          /\ res' = [op |-> "build_cache", exc |-> b.exc]
    /\ pre' = data
    /\ cpre' = caches[SharedId]
    /\ npass' = npass + 1
    /\ flushed' = FALSE
    /\ UNCHANGED <<cfg, raw, nedit, inst, thr, cls_instance, cls_lock, stack>>

\* What the host may write into a tree between two passes.
HostWrites == {<<"fk", I(1)>>, <<"qs", List(<<I(1)>>)>>, <<"child", Dict([fk |-> I(2)])>>}

\* The host writes a raw reference into a tree that was substituted already.
HostSet ==
    /\ npass >= 1
    /\ nedit < MaxEdits
    /\ inst = None
    /\ LazyPaths(data) # {}
    /\ \E w \in HostWrites :
          /\ data' = pointed_setter(data, <<w[1]>>, w[2])
          /\ raw' = pointed_setter(raw, <<w[1]>>, w[2])
    /\ nedit' = nedit + 1
    /\ res' = NoRes
    /\ UNCHANGED <<cfg, caches, pre, cpre, fkd, calls, npass, flushed, inst, thr, cls_instance, cls_lock, stack>>

FlushArgs ==
    {FlushNone} \cup {FlushClass(m) : m \in Models} \cup {FlushName(m) : m \in Models}

\* The host (or another thread) flushes the shared cache.
Flush ==
    /\ cfg.enabled /\ cfg.shared
    /\ npass >= 1
    /\ \E a \in FlushArgs :
          /\ caches' = [caches EXCEPT ![SharedId] = flush(@, a)]
          /\ res' = [op |-> "flush", arg |-> a, before |-> caches[SharedId]]
    /\ flushed' = TRUE
    /\ UNCHANGED <<cfg, raw, data, pre, cpre, fkd, calls, npass, nedit, inst, thr, cls_instance, cls_lock, stack>>

\* One Lazy Value of the tree is resolved.
Retrieve ==
    /\ \E p \in LazyPaths(data) :
          res' = [op |-> "retrieve", path |-> p, out |-> retrieve(At(data, p), caches)]
    /\ UNCHANGED <<cfg, caches, raw, data, pre, cpre, fkd, calls, npass, nedit,
                   flushed, inst, thr, cls_instance, cls_lock, stack>>

\* The host builds the typed object of the tree.
Construct ==
    /\ npass >= 1
    /\ inst = None
    /\ ~(res.op = "build_cache" /\ res.exc.t = "raise")
    /\ inst' = TypedObject("Root", data)
    /\ res' = NoRes
    /\ UNCHANGED <<cfg, caches, raw, data, pre, cpre, fkd, calls, npass, nedit,
                   flushed, thr, cls_instance, cls_lock, stack>>

Perms(set) == {s \in [1..Cardinality(set) -> set] : Range(s) = set}

\* CacheEngine.fetch_cache on the typed object (engine.py line 37 calls it);
\* model_fields_set is a set, visited in any order.
FetchCache ==
    /\ inst.t = "inst"
    /\ \E order \in Perms(inst.set) :
          LET r == fetch_cache(inst, order, caches)
          IN /\ inst' = r.inst
             /\ res' = [op |-> "fetch_cache", exc |-> r.exc, queries |-> r.queries]
    /\ UNCHANGED <<cfg, caches, raw, data, pre, cpre, fkd, calls, npass, nedit,
                   flushed, thr, cls_instance, cls_lock, stack>>

Next == BuildCache \/ HostSet \/ Retrieve

Spec == Init /\ [][Next]_vars

(***************************************************************************)
(* Resolution: one build_cache pass, then flushes of the shared cache,     *)
(* the construction of the typed object and fetch_cache.                  *)
(***************************************************************************)
BuildOnce == npass = 0 /\ BuildCache

NextResolve == BuildOnce \/ Flush \/ Retrieve \/ Construct \/ FetchCache

SpecResolve == Init /\ [][NextResolve]_vars

(***************************************************************************)
(* Sequential passes over the shared cache: after a pass the host hands    *)
(* in the next raw input; it may flush the shared cache in between.        *)
(***************************************************************************)
SharedConfig == [enabled |-> TRUE, shared |-> TRUE]

SeqInputs ==
    {MkRoot(q, f, Absent, Absent) :
        q \in {Absent, List(<<I(1)>>), List(<<I(2)>>), List(<<S(<<1>>)>>),
               List(<<S(<<10>>)>>)},
        f \in {Absent, I(1), I(3), S(<<10>>)}}

InitSeq == InitWith(SeqInputs, {SharedConfig}) /\ thr = NoThreads /\ Constructed /\ stack = NoCalls

NewInput ==
    /\ npass >= 1
    /\ npass < MaxPasses
    /\ res.op = "build_cache"
    /\ \E d \in SeqInputs : raw' = d /\ data' = d
    /\ res' = NoRes
    /\ UNCHANGED <<cfg, caches, pre, cpre, fkd, calls, npass, nedit, flushed,
                   inst, thr, cls_instance, cls_lock, stack>>

NextSeq == BuildCache \/ NewInput \/ Flush

SpecSeq == InitSeq /\ [][NextSeq]_vars

(***************************************************************************)
(* Concurrent passes: each thread runs build_cache on its own input with   *)
(* the shared cache; a thread switch may fall between the read of the      *)
(* class's mapping (line 241), the query (line 251) and the store          *)
(* (line 252).                                                             *)
(***************************************************************************)
Threads == 1..NumThreads

ConcInputs ==
    {MkRoot(Absent, I(1), Absent, Absent), MkRoot(Absent, I(2), Absent, Absent),
     MkRoot(List(<<I(1)>>), Absent, Absent, Absent),
     MkRoot(List(<<I(2)>>), I(1), Absent, Absent)}

Locals(d) ==
    [pc |-> "start", data |-> d, fk |-> EmptyFk, ps |-> EmptyFk, order |-> <<>>,
     i |-> 1, models |-> {}, got |-> {}]

InitConc ==
    /\ InitWith({None}, {SharedConfig})
    /\ thr \in [Threads -> {Locals(d) : d \in ConcInputs}]
    /\ Constructed /\ stack = NoCalls

SeqUnchanged ==
    UNCHANGED <<cfg, raw, data, pre, cpre, fkd, calls, npass, nedit, flushed,
                inst, res, cls_instance, cls_lock, stack>>

\* Lines 228-239: collect, flatten, take the singleton.
CCollect(t) ==
    /\ thr[t].pc = "start"
    /\ LET fk == get_all_fk_data("Root", thr[t].data)
           ps == plainset(fk)
           order == SetToSeq(DOMAIN ps)
       IN thr' = [thr EXCEPT ![t].fk = fk, ![t].ps = ps, ![t].order = order,
                             ![t].pc = IF Len(order) = 0 THEN "subst" ELSE "read"]
    /\ UNCHANGED caches
    /\ SeqUnchanged

\* Line 241.
CRead(t) ==
    /\ thr[t].pc = "read"
    /\ thr' = [thr EXCEPT ![t].models = ReadModels(caches[SharedId], thr[t].order[thr[t].i]),
                          ![t].pc = "fetch"]
    /\ UNCHANGED caches
    /\ SeqUnchanged

\* Lines 242-251.
CFetch(t) ==
    /\ thr[t].pc = "fetch"
    /\ LET m == thr[t].order[thr[t].i]
           values == thr[t].ps[m]
       IN IF BadLookup(PksToFetch(thr[t].models, values, m))
          THEN thr' = [thr EXCEPT ![t].pc = "raised"]
          ELSE thr' = [thr EXCEPT
                          ![t].models = FetchModels(thr[t].models, values, m),
                          ![t].got = @ \cup FetchModels(thr[t].models, values, m),
                          ![t].pc = "store"]
    /\ UNCHANGED caches
    /\ SeqUnchanged

\* Line 252.
CStore(t) ==
    /\ thr[t].pc = "store"
    /\ caches' = [caches EXCEPT ![SharedId] =
                     CacheSet(@, thr[t].order[thr[t].i], StoreMapping(thr[t].models))]
    /\ thr' = [thr EXCEPT ![t].i = @ + 1,
                          ![t].pc = IF thr[t].i + 1 > Len(thr[t].order)
                                    THEN "subst" ELSE "read"]
    /\ SeqUnchanged

\* Lines 254-257.
CSubst(t) ==
    /\ thr[t].pc = "subst"
    /\ thr' = [thr EXCEPT ![t].data = SubstLoop(thr[t].data, thr[t].fk, thr[t].order,
                                                1, SharedId, t),
                          ![t].pc = "done"]
    /\ UNCHANGED caches
    /\ SeqUnchanged

NextConc ==
    \E t \in Threads : CCollect(t) \/ CRead(t) \/ CFetch(t) \/ CStore(t) \/ CSubst(t)

SpecConc == InitConc /\ [][NextConc]_vars

(***************************************************************************)
(* Other shapes of input: reference fields that hold entity instances, and *)
(* a top-level sequence of mappings.                                       *)
(***************************************************************************)
ShapeRoots ==
    {MkRoot(q, f, c, cs) :
        q \in {Absent, List(<<Ent("User", 1)>>), List(<<I(2), Ent("User", 1)>>)},
        f \in {Absent, Ent("Item", 1), I(2)},
        c \in {Absent, Dict([fk |-> Ent("User", 2)])},
        cs \in {Absent, List(<<Dict([fk |-> I(1)])>>)}}

ShapeElems ==
    {MkRoot(Absent, I(1), Absent, Absent),
     MkRoot(Absent, Absent, Dict([fk |-> I(2)]), Absent),
     MkRoot(List(<<I(1)>>), Absent, Absent, List(<<Dict([fk |-> I(1)])>>))}

ShapeInputs == ShapeRoots \cup {List(<<a, b>>) : a, b \in ShapeElems}

InitShapes == InitWith(ShapeInputs, Configs) /\ thr = NoThreads /\ Constructed /\ stack = NoCalls

NextShapes == BuildCache \/ Retrieve

SpecShapes == InitShapes /\ [][NextShapes]_vars

(***************************************************************************)
(* ThreadSafeCache.__new__ (lines 62-67) called by concurrent threads, one *)
(* step per line; a caller may store an entry through the instance it got  *)
(* (as build_cache does at line 252) and construct again.                  *)
(***************************************************************************)
Caller == [pc |-> "idle", got |-> NoInstance, ncalls |-> 0, put |-> FALSE]

InitSingleton ==
    /\ cfg = SharedConfig
    /\ caches = [c \in {} |-> EmptyCache]
    /\ raw = None /\ data = None /\ pre = None
    /\ cpre = EmptyCache
    /\ fkd = EmptyFk
    /\ calls = <<>>
    /\ npass = 0 /\ nedit = 0
    /\ flushed = FALSE
    /\ inst = None
    /\ res = NoRes
    /\ thr = [t \in Threads |-> Caller]
    /\ cls_instance = NoInstance
    /\ cls_lock = Free
    /\ stack = NoCalls

NewUnchanged ==
    UNCHANGED <<cfg, raw, data, pre, cpre, fkd, calls, npass, nedit, flushed,
                inst, res, stack>>

\* Line 63: if cls._instance is None
NOuter(t) ==
    /\ thr[t].pc = "idle"
    /\ thr[t].ncalls < MaxConstructs
    /\ thr' = [thr EXCEPT ![t].ncalls = @ + 1,
                          ![t].pc = IF cls_instance = NoInstance THEN "lock" ELSE "ret"]
    /\ UNCHANGED <<caches, cls_instance, cls_lock, stack>>
    /\ NewUnchanged

\* Line 64: with cls._lock
NAcquire(t) ==
    /\ thr[t].pc = "lock"
    /\ cls_lock = Free
    /\ cls_lock' = t
    /\ thr' = [thr EXCEPT ![t].pc = "inner"]
    /\ UNCHANGED <<caches, cls_instance>>
    /\ NewUnchanged

\* `not cls._instance`: None is falsy, and so is a Cache (a dict) without
\* entries.
NotInstance == cls_instance = NoInstance \/ DOMAIN caches[cls_instance] = {}

\* Lines 65-66: if not cls._instance: cls._instance = super().__new__(cls)
NInner(t) ==
    /\ thr[t].pc = "inner"
    /\ IF NotInstance
       THEN LET id == Cardinality(DOMAIN caches)
            IN /\ caches' = [c \in DOMAIN caches \cup {id} |->
                                IF c = id THEN EmptyCache ELSE caches[c]]
               /\ cls_instance' = id
       ELSE UNCHANGED <<caches, cls_instance>>
    /\ thr' = [thr EXCEPT ![t].pc = "unlock"]
    /\ UNCHANGED cls_lock
    /\ NewUnchanged

\* Leaving the with block releases the lock.
NRelease(t) ==
    /\ thr[t].pc = "unlock"
    /\ cls_lock' = Free
    /\ thr' = [thr EXCEPT ![t].pc = "ret"]
    /\ UNCHANGED <<caches, cls_instance>>
    /\ NewUnchanged

\* Line 67: return cls._instance
NReturn(t) ==
    /\ thr[t].pc = "ret"
    /\ thr' = [thr EXCEPT ![t].got = cls_instance, ![t].pc = "done"]
    /\ UNCHANGED <<caches, cls_instance, cls_lock, stack>>
    /\ NewUnchanged

\* The caller stores a mapping through the instance it received.
NStore(t) ==
    /\ thr[t].pc = "done"
    /\ caches' = [caches EXCEPT ![thr[t].got] =
                     CacheSet(@, "User", StoreMapping({Ent("User", 1)}))]
    /\ thr' = [thr EXCEPT ![t].put = TRUE, ![t].pc = "idle"]
    /\ UNCHANGED <<cls_instance, cls_lock, stack>>
    /\ NewUnchanged

\* The caller is done with the instance without storing anything.
NDrop(t) ==
    /\ thr[t].pc = "done"
    /\ thr' = [thr EXCEPT ![t].pc = "idle"]
    /\ UNCHANGED <<caches, cls_instance, cls_lock, stack>>
    /\ NewUnchanged

NextSingleton ==
    \E t \in Threads :
        NOuter(t) \/ NAcquire(t) \/ NInner(t) \/ NRelease(t) \/ NReturn(t)
            \/ NStore(t) \/ NDrop(t)

SpecSingleton == InitSingleton /\ [][NextSingleton]_vars

(***************************************************************************)
(* The Reference Collector as its call stack: get_all_fk_data (lines       *)
(* 156-164) calls itself on every element of a Sequence, and get_fk_data   *)
(* (lines 206-222) calls it on the value of a nested-single field and on   *)
(* every element of a nested-collection list. The stack is capped at       *)
(* MaxStack frames, as the interpreter caps it.                            *)
(***************************************************************************)
Call(type, d) == [type |-> type, d |-> d]

\* The calls the loop over the related fields makes, from field i on; the
\* loop ends at the break of the recursion guard.
RECURSIVE FieldCallees(_, _, _)
FieldCallees(type, d, i) ==
    LET fields == inspect_related_fields(type)
    IN IF i > Len(fields) THEN <<>>
       ELSE
         LET info == fields[i]
             rest == FieldCallees(type, d, i + 1)
         IN CASE info.type = FKField ->
                   LET got == pointed_getter(d, <<info.name>>, None)
                       value == IF got.t = "dict"
                                THEN pointed_getter(got, <<PkAttname>>, None)
                                ELSE got
                   IN IF Truthy(value) /\ IsValueWithCache(value) THEN <<>> ELSE rest
              [] info.type = QSField ->
                   LET value == pointed_getter(d, <<info.name>>, List(<<>>))
                   IN IF value.t = "list"
                         /\ \E j \in DOMAIN value.items : IsValueWithCache(value.items[j])
                      THEN <<>> ELSE rest
              [] info.type = RLField ->
                   LET values == pointed_getter(d, <<info.name>>, List(<<>>))
                   IN (IF values.t = "list"
                       THEN [j \in DOMAIN values.items |-> Call(info.model, values.items[j])]
                       ELSE <<>>) \o rest
              [] info.type = RIField ->
                   <<Call(info.model, pointed_getter(d, <<info.name>>, None))>> \o rest

\* The recursive calls one call of get_all_fk_data makes, in order.
Callees(type, d) ==
    IF IsSequence(d)
    THEN IF d.t = "list" THEN [i \in DOMAIN d.items |-> Call(type, d.items[i])]
         ELSE [i \in DOMAIN d.s |-> Call(type, S(<<d.s[i]>>))]
    ELSE IF ~Truthy(d) THEN <<>>
    ELSE FieldCallees(type, d, 1)

Frame(c) == [type |-> c.type, d |-> c.d, next |-> 1]

\* Values a nested-single field of union type may hold instead of a mapping.
Scalars == {None, I(5), S(<<1>>), S(<<1, 2>>)}

RECURSIVE NodeTrees(_)
NodeTrees(n) ==
    IF n = 0 THEN Scalars
    ELSE Scalars \cup {Dict([fk |-> I(1), next |-> x]) : x \in NodeTrees(n - 1)}

CollectInputs ==
    {Call("Node", x) : x \in {y \in NodeTrees(MaxNest) : y.t = "dict"}}
    \cup {Call("Root", MkRoot(Absent, Absent, c, cs)) :
             c \in Scalars \cup {Absent, Dict([fk |-> I(1)])},
             cs \in {Absent, List(<<Dict([fk |-> I(1)])>>),
                     List(<<Dict([fk |-> I(1)]), Dict([fk |-> I(2)])>>)}}

InitCollect ==
    /\ cfg = SharedConfig
    /\ caches = [c \in {SharedId} |-> EmptyCache]
    /\ \E c \in CollectInputs :
          /\ raw = c.d
          /\ stack = <<Frame(c)>>
    /\ data = raw /\ pre = raw
    /\ cpre = EmptyCache
    /\ fkd = EmptyFk
    /\ calls = <<>>
    /\ npass = 0 /\ nedit = 0
    /\ flushed = FALSE
    /\ inst = None
    /\ res = NoRes
    /\ thr = NoThreads
    /\ Constructed

CollectUnchanged ==
    UNCHANGED <<cfg, caches, raw, data, pre, cpre, fkd, calls, npass, nedit,
                flushed, inst, thr, cls_instance, cls_lock>>

Top == stack[Len(stack)]

\* The innermost call makes its next recursive call.
GCall ==
    /\ stack # NoCalls
    /\ Top.next <= Len(Callees(Top.type, Top.d))
    /\ Len(stack) < MaxStack
    /\ stack' = Append([stack EXCEPT ![Len(stack)].next = @ + 1],
                       Frame(Callees(Top.type, Top.d)[Top.next]))
    /\ UNCHANGED res
    /\ CollectUnchanged

\* The innermost call has made all its calls and returns.
GReturn ==
    /\ stack # NoCalls
    /\ Top.next > Len(Callees(Top.type, Top.d))
    /\ stack' = SubSeq(stack, 1, Len(stack) - 1)
    /\ res' = IF Len(stack) = 1 THEN [op |-> "get_all_fk_data", exc |-> None] ELSE res
    /\ CollectUnchanged

\* The stack is exhausted: the next call raises RecursionError.
GOverflow ==
    /\ stack # NoCalls
    /\ Top.next <= Len(Callees(Top.type, Top.d))
    /\ Len(stack) = MaxStack
    /\ stack' = NoCalls
    /\ res' = [op |-> "get_all_fk_data", exc |-> Raise("RecursionError")]
    /\ CollectUnchanged

NextCollect == GCall \/ GReturn \/ GOverflow

SpecCollect == InitCollect /\ [][NextCollect]_vars

(***************************************************************************)
(* Properties.                                                             *)
(***************************************************************************)
\* The keys some Reference Tuple of model m carries, one per occurrence.
KeyOccurrences(fk, m) ==
    UNION {IF fk[m][i].key.t = "list"
           THEN {<<i, j, fk[m][i].key.items[j]>> : j \in DOMAIN fk[m][i].key.items}
           ELSE {<<i, 0, fk[m][i].key>>} : i \in DOMAIN fk[m]}

CollectedKeys(fk, m) == {o[3] : o \in KeyOccurrences(fk, m)}

OccursTwice(fk, m) ==
    \E o1, o2 \in KeyOccurrences(fk, m) : o1 # o2 /\ o1[3] = o2[3]

CallsFor(m) == {i \in DOMAIN calls : calls[i].model = m}

\* C1 (Dedup): after a build_cache pass that started with an empty cache,
\* for every target type of which some key was collected at several paths
\* there is exactly one batch fetch, and its key set is exactly the set of
\* distinct keys collected for that type.
DedupFetch ==
    (res.op = "build_cache" /\ cfg.enabled /\ (npass = 1 \/ ~cfg.shared)) =>
        \A m \in DOMAIN fkd :
            OccursTwice(fkd, m) =>
                /\ Cardinality(CallsFor(m)) = 1
                /\ \A i \in CallsFor(m) : calls[i].pks = CollectedKeys(fkd, m)

\* C2 (Path fidelity): resolving the Lazy Value that build_cache put at a
\* path returns what a direct fetch of the raw value originally at that
\* path returns, for every raw value the direct fetch accepts.
PathFidelity ==
    res.op = "retrieve" =>
        LET v == At(data, res.path)
            direct == DirectFetch(v.model, At(raw, res.path))
        IN direct # Raise("ValidationError") => res.out.val = direct

\* One entity per existing key, in key order, duplicates kept.
RECURSIVE EntitiesOf(_, _)
EntitiesOf(m, keys) ==
    IF Len(keys) = 0 THEN <<>>
    ELSE (IF Coerce(Head(keys)) \in Existing[m]
          THEN <<Ent(m, Coerce(Head(keys)))>> ELSE <<>>)
         \o EntitiesOf(m, Tail(keys))

\* C3: resolving a Lazy Value bound to a sequence of keys returns one entity
\* per existing key, in the original key order with duplicates preserved,
\* whatever subset of the keys the cache holds.
SequenceResolve ==
    (res.op = "retrieve" /\ At(data, res.path).value.t = "list") =>
        LET v == At(data, res.path)
        IN res.out.val = QS(v.model, EntitiesOf(v.model, v.value.items))

\* C4 (Shared-cache isolation): in a pass over the shared cache that follows
\* an earlier pass, no key whose entity the shared cache held when the pass
\* began is passed to the persistence layer, and a type whose requested keys
\* were all held gets no fetch call at all.
SharedCacheHit ==
    (res.op = "build_cache" /\ cfg.shared /\ npass >= 2) =>
        \A m \in DOMAIN fkd :
            LET stored == IF m \in DOMAIN cpre THEN DOMAIN cpre[m] ELSE {}
                req == CollectedKeys(fkd, m)
            IN /\ \A i \in CallsFor(m) : \A k \in calls[i].pks : Coerce(k) \notin stored
               /\ (req # {} /\ \A k \in req : Coerce(k) \in stored) => CallsFor(m) = {}

\* C5: once all concurrent passes over the shared cache have finished, the
\* shared cache holds every entity that any pass fetched or found cached.
NoLostEntries ==
    (thr # NoThreads /\ \A t \in DOMAIN thr : thr[t].pc = "done") =>
        \A t \in DOMAIN thr : \A e \in thr[t].got :
            /\ e.model \in DOMAIN caches[SharedId]
            /\ e.pk \in DOMAIN caches[SharedId][e.model]

\* C6: after a flush of the shared cache between substitution and resolution,
\* retrieve() on a single-key Lazy Value returns the entity with that key
\* (or the lookup error for a missing entity), and on a key-sequence Lazy
\* Value it returns all entities for its keys.
FlushFallback ==
    (flushed /\ res.op = "retrieve") =>
        LET v == At(data, res.path)
        IN IF v.value.t = "list"
           THEN res.out.val.t = "qs" /\ res.out.val.items = EntitiesOf(v.model, v.value.items)
           ELSE res.out.val = GetByPk(v.model, v.value)

TuplePaths(fk) == UNION {{fk[m][i].path : i \in DOMAIN fk[m]} : m \in DOMAIN fk}

\* C7 (Idempotence): a build_cache pass appends no Reference Tuple for a
\* path that already holds a Lazy Value, and every Lazy Value already in
\* the tree is the same value (cache, target type, keys, identity) after
\* the pass.
KeepsLazyValues ==
    res.op = "build_cache" =>
        \A p \in LazyPaths(pre) :
            /\ p \notin TuplePaths(fkd)
            /\ At(data, p) = At(pre, p)

\* A second pass over a partially substituted tree that still collected a
\* raw reference the host wrote after the first pass.
KeepsLazyValuesWitness ==
    /\ res.op = "build_cache"
    /\ npass = 2
    /\ LazyPaths(pre) # {}
    /\ TuplePaths(fkd) # {}
    /\ LazyPaths(data) # LazyPaths(pre)

\* C8: after fetch_cache returned for a typed object, no field of the
\* object at any depth holds a Lazy Value.
NoLazyValueLeft ==
    (res.op = "fetch_cache" /\ res.exc.t # "raise") => LazyPaths(inst) = {}

KeysOfValue(v) == IF v.value.t = "list" THEN Range(v.value.items) ELSE {v.value}

\* C9: resolving a Lazy Value one of whose keys has no entity in the
\* persistence layer raises the lookup error, for a single reference and
\* for a key sequence alike.
MissingKeyRaises ==
    res.op = "retrieve" =>
        LET v == At(data, res.path)
        IN (\E k \in KeysOfValue(v) : Coerce(k) \notin Existing[v.model]) =>
               res.out.val = Raise("DoesNotExist")

\* C10: build_cache completes whatever keys are missing from the
\* persistence layer; the cache has no entry for a missing key; and every
\* collected path holds a Lazy Value with the collected key(s) and type.
MissingKeysDeferred ==
    (res.op = "build_cache" /\ cfg.enabled) =>
        /\ res.exc = None
        /\ \A c \in DOMAIN caches : \A m \in DOMAIN caches[c] :
              DOMAIN caches[c][m] \subseteq Existing[m]
        /\ \A m \in DOMAIN fkd : \A i \in DOMAIN fkd[m] :
              LET v == At(data, fkd[m][i].path)
              IN v.t = "vwc" /\ v.model = m /\ v.value = fkd[m][i].key

\* A pass that collected a key with no entity behind it.
MissingKeysDeferredWitness ==
    /\ res.op = "build_cache"
    /\ cfg.enabled
    /\ \E m \in DOMAIN fkd : \E k \in CollectedKeys(fkd, m) :
          Coerce(k) \notin Existing[m]

PksOf(keys) == {Coerce(k) : k \in keys}

\* C11: in one validation pass over an input whose referenced keys all
\* exist, started with nothing cached, every target type with a key gets
\* exactly one batch fetch that carries all keys of the type, and resolving
\* a Lazy Value afterwards issues no further fetch.
OneFetchPerType ==
    (/\ cfg.enabled
     /\ npass = 1
     /\ \A m \in DOMAIN fkd : PksOf(CollectedKeys(fkd, m)) \subseteq Existing[m]) =>
        /\ res.op = "build_cache" =>
              \A m \in DOMAIN fkd :
                  CollectedKeys(fkd, m) # {} =>
                      /\ Cardinality(CallsFor(m)) = 1
                      /\ \A i \in CallsFor(m) :
                            PksOf(CollectedKeys(fkd, m)) \subseteq PksOf(calls[i].pks)
        /\ res.op = "retrieve" => res.out.queries = <<>>

\* C12: a reference field that holds a full entity instance of the target
\* type has that instance stored in the cache under its primary key, and
\* its key is not part of the batch fetch for the type.
InstanceNotFetched ==
    (res.op = "build_cache" /\ cfg.enabled /\ npass = 1) =>
        \A p \in PathsOf(pre) :
            At(pre, p).t = "ent" =>
                LET e == At(pre, p)
                IN /\ \E c \in DOMAIN caches :
                         /\ e.model \in DOMAIN caches[c]
                         /\ e.pk \in DOMAIN caches[c][e.model]
                         /\ caches[c][e.model][e.pk] = e
                   /\ \A i \in CallsFor(e.model) : e.pk \notin PksOf(calls[i].pks)

\* C13: under every interleaving of ThreadSafeCache() constructions at most
\* one instance is ever created, every caller receives that same instance,
\* and the entries stored through an instance received earlier are still in
\* the singleton after later constructions.
SingletonCache ==
    /\ Cardinality(DOMAIN caches) <= 1
    /\ \A t, u \in DOMAIN thr :
          (thr[t].got # NoInstance /\ thr[u].got # NoInstance) => thr[t].got = thr[u].got
    /\ \A t \in DOMAIN thr :
          thr[t].put => (cls_instance # NoInstance /\ "User" \in DOMAIN caches[cls_instance])

\* C14: flush(T) for an entity type T removes exactly the entries of T and
\* leaves every other type's entries as they were (nothing changes when T
\* is not cached); flush() without argument leaves the cache empty.
FlushFrame ==
    res.op = "flush" =>
        LET before == res.before
            after == caches[SharedId]
        IN CASE res.arg.kind = "none" -> after = EmptyCache
             [] res.arg.kind = "class" ->
                  /\ DOMAIN after = DOMAIN before \ {res.arg.name}
                  /\ \A m \in DOMAIN after : after[m] = before[m]
             [] OTHER -> TRUE

\* A flush of one cached type while another type has entries.
FlushFrameWitness ==
    /\ res.op = "flush"
    /\ res.arg.kind = "class"
    /\ res.arg.name \in DOMAIN res.before
    /\ res.before[res.arg.name] # <<>>
    /\ \E m \in DOMAIN caches[SharedId] : caches[SharedId][m] # <<>>

\* C15 (Disabled pass-through): with the cache-enabled flag false,
\* build_cache returns its input unchanged, performs no fetch, writes
\* nothing to any cache and substitutes no Lazy Value.
DisabledPassThrough ==
    (res.op = "build_cache" /\ ~cfg.enabled) =>
        /\ res.exc = None
        /\ data = pre
        /\ calls = <<>>
        /\ DOMAIN caches = {SharedId}
        /\ caches[SharedId] = cpre
        /\ LazyPaths(data) = {}

\* A disabled pass over an input that carries references.
DisabledPassThroughWitness ==
    /\ res.op = "build_cache"
    /\ ~cfg.enabled
    /\ \E m \in DOMAIN get_all_fk_data("Root", pre) :
          CollectedKeys(get_all_fk_data("Root", pre), m) # {}

\* C16: the collector terminates on every finite data tree and declared
\* type: no call of get_all_fk_data runs inside a call with the same type
\* and the same data (such a call never returns), and the outermost call
\* returns without exhausting the stack.
CollectorTerminates ==
    /\ \A i, j \in DOMAIN stack :
          i < j => Call(stack[i].type, stack[i].d) # Call(stack[j].type, stack[j].d)
    /\ res.op = "get_all_fk_data" => res.exc = None

\* C17: a build_cache pass over the shared cache removes no entry: every
\* (type, key) entry the shared cache held when the pass began is still
\* there, with the same entity, when the pass has ended, for the types the
\* pass touches and for the others.
EntriesPersist ==
    (res.op = "build_cache" /\ cfg.shared) =>
        \A m \in DOMAIN cpre :
            /\ m \in DOMAIN caches[SharedId]
            /\ \A k \in DOMAIN cpre[m] :
                  /\ k \in DOMAIN caches[SharedId][m]
                  /\ caches[SharedId][m][k] = cpre[m][k]

\* A later pass that fetched a new key for a type that had entries, while
\* another type with entries was not touched.
EntriesPersistWitness ==
    /\ res.op = "build_cache"
    /\ cfg.shared
    /\ npass >= 2
    /\ \E m \in DOMAIN cpre : DOMAIN cpre[m] # {} /\ CallsFor(m) # {}
    /\ \E m \in DOMAIN cpre : DOMAIN cpre[m] # {} /\ m \notin DOMAIN fkd

\* C18 (Recursion-guard scope): when a build_cache pass finds a Lazy Value
\* in one reference field of the root node, only that field is left out:
\* each other reference field of the node that holds a raw reference has
\* its Reference Tuple in the collected fk_data.
GuardAbortsFieldOnly ==
    (res.op = "build_cache" /\ cfg.enabled) =>
        LET f == pointed_getter(pre, <<"fk">>, None)
            q == pointed_getter(pre, <<"qs">>, List(<<>>))
            fkLazy == IsValueWithCache(f)
            qsLazy == \/ IsValueWithCache(q)
                      \/ /\ q.t = "list"
                         /\ \E j \in DOMAIN q.items : IsValueWithCache(q.items[j])
            fkRaw == Truthy(f) /\ f.t \in {"int", "str"}
            qsRaw == /\ q.t = "list"
                     /\ \A j \in DOMAIN q.items : ~IsValueWithCache(q.items[j])
        IN /\ (fkLazy /\ qsRaw) => <<"qs">> \in TuplePaths(fkd)
           /\ (qsLazy /\ fkRaw) => <<"fk">> \in TuplePaths(fkd)

\* C19: every Reference Tuple (path, key) the collector returns has a path
\* that locates, in the tree the pass was given, the value the key was read
\* from: the path of a tuple that carries a key is a path of the tree, a
\* single reference's key is the key of the value there, and a reference
\* collection's keys are the keys of the list there, in order; the index of
\* a top-level sequence, the name of a nested-single field and the name and
\* index of a nested-collection element compose in nesting order.
TupleLocatesKey ==
    (res.op = "build_cache" /\ cfg.enabled) =>
        \A m \in DOMAIN fkd : \A i \in DOMAIN fkd[m] :
            LET tup == fkd[m][i]
                v == pointed_getter(pre, tup.path, List(<<>>))
            IN /\ tup.key # List(<<>>) => tup.path \in PathsOf(pre)
               /\ IF tup.key.t = "list"
                  THEN v.t = "list" /\ tup.key.items = KeysOfList(v.items)
                  ELSE tup.key = KeyOf(v)

\* A pass over a top-level sequence that returned a tuple for a reference
\* in a nested-collection element of one element, one for a reference in a
\* nested-single field of another element, and one for a reference
\* collection.
TupleLocatesKeyWitness ==
    /\ res.op = "build_cache"
    /\ cfg.enabled
    /\ pre.t = "list"
    /\ \E p \in TuplePaths(fkd) : Len(p) = 4 /\ p[1] = "0" /\ p[2] = "children"
    /\ \E p \in TuplePaths(fkd) : Len(p) = 3 /\ p[1] = "1" /\ p[2] = "child"
    /\ \E m \in DOMAIN fkd : \E i \in DOMAIN fkd[m] :
          fkd[m][i].key.t = "list" /\ fkd[m][i].key # List(<<>>)

MappingOf(cache, m) == IF m \in DOMAIN cache THEN cache[m] ELSE <<>>

\* C20: when the fetch for an entity type raises during a build_cache pass
\* over the shared cache, the mapping of that type is exactly what it was
\* before the pass, every mapping in the cache maps each primary key to the
\* entity with that primary key, and the data tree is as the pass received
\* it, with no Lazy Value written into it.
FailedFetchConsistent ==
    (res.op = "build_cache" /\ res.exc.t = "raise" /\ cfg.shared) =>
        LET m == calls[Len(calls)].model
            c == caches[SharedId]
        IN /\ (m \in DOMAIN c) = (m \in DOMAIN cpre)
           /\ MappingOf(c, m) = MappingOf(cpre, m)
           /\ \A x \in DOMAIN c : \A k \in DOMAIN c[x] : c[x][k] = Ent(x, k)
           /\ data = pre
           /\ LazyPaths(data) \subseteq LazyPaths(pre)

\* A second pass whose fetch raised for a type that had an entry, after the
\* same pass had fetched and stored a new entity of another type.
FailedFetchConsistentWitness ==
    /\ res.op = "build_cache"
    /\ res.exc.t = "raise"
    /\ cfg.shared
    /\ Len(calls) >= 2
    /\ LET m == calls[Len(calls)].model
       IN /\ DOMAIN MappingOf(cpre, m) # {}
          /\ \E x \in DOMAIN caches[SharedId] :
                /\ x # m
                /\ DOMAIN caches[SharedId][x] # DOMAIN MappingOf(cpre, x)

\* C21: flush called with the class name of an entity type, as a string,
\* removes the entries of the cached type of that name and leaves every
\* other type's entries as they were.
FlushByName ==
    (res.op = "flush" /\ res.arg.kind = "name") =>
        LET before == res.before
            after == caches[SharedId]
        IN /\ DOMAIN after = DOMAIN before \ {res.arg.name}
           /\ \A m \in DOMAIN after : after[m] = before[m]

====
